---------------------------- MODULE Spec2Model ----------------------------
(***************************************************************************)
(* The indexer of searchnos (src/src/indexer/main.rs): the consumer loop   *)
(* of main, handle_update, delete_event, handle_deletion_event and the     *)
(* pure helpers index_name_for_event and can_exist, against a document     *)
(* store that holds one document per (index, id).                          *)
(*                                                                         *)
(* Strings the code builds or takes apart (index names, date strings) are  *)
(* sequences of one-character strings.  An instant is a record             *)
(* [day, sec]: the raw count of seconds is day * 86400 + sec with          *)
(* 0 <= sec < 86400 (the euclidean split chrono itself makes), which keeps *)
(* every representable i64 timestamp within the checker's integers.        *)
(*                                                                         *)
(* Spec is the consumer loop of one instance.  SpecRedelivery is the same  *)
(* loop on the deletion requests and their targets, with the history of    *)
(* the references handled; SpecRace is two instances on one store, each    *)
(* store call of handle_update a step of its own; SpecUpsert applies       *)
(* handle_update to events of every kind is_replaceable_event tells apart; *)
(* SpecCanExist, SpecIndexName, SpecConvertTags and SpecRoundTrip apply    *)
(* the pure helpers to inputs drawn from small sets.                       *)
(***************************************************************************)
EXTENDS Integers, Sequences, FiniteSets, TLC

VARIABLES
    store,      \* the documents of the store: a set of [index, id, event, timestamp]
    now,        \* the wall clock read by Utc::now() and by the ingest pipeline
    running,    \* TRUE until main returns (the consumer loop is alive)
    last,       \* what the loop did with the event it handled last
    reconciled, \* ids of the replaceable events whose upsert and reconciliation succeeded
    probe,      \* input and result of a pure function applied on its own
    instances,  \* where each of two concurrent instances is in handle_update
    ops,        \* the store calls of the concurrent instances, in the order served
    deletions   \* the references of the deletion requests handled so far that
                \* ended Ok or not found, with that result

vars == <<store, now, running, last, reconciled, probe, instances, ops, deletions>>

\* the variables of the concurrent instances
raceVars == <<instances, ops>>

---------------------------------------------------------------------------
(* Bounds of the model *)

\* number of clock ticks the model lets pass
MaxTicks == 2
\* number of store calls that may fail while one event is handled
MaxFaults == 1
\* number of tags of an event convert_tags is applied to
MaxTags == 3
\* number of notifications each of the concurrent instances handles
MaxHandled == 1

---------------------------------------------------------------------------
(* Calendar and clock arithmetic (chrono) *)

SecsPerDay == 86400
\* half a day: the step of the model's clock
TickSecs == SecsPerDay \div 2
\* chrono's NaiveDate range, in days since 1970-01-01
ChronoMaxDay == 95026601
ChronoMinDay == -96465658

\* days since 1970-01-01 of the proleptic Gregorian date y-m-d
DaysFromCivil(y, m, d) ==
    LET yy  == IF m <= 2 THEN y - 1 ELSE y
        era == yy \div 400
        yoe == yy - era * 400
        mp  == IF m > 2 THEN m - 3 ELSE m + 9
        doy == (153 * mp + 2) \div 5 + d - 1
        doe == yoe * 365 + yoe \div 4 - yoe \div 100 + doy
    IN  era * 146097 + doe - 719468

\* the proleptic Gregorian date of a day number
CivilFromDays(z) ==
    LET zz  == z + 719468
        era == zz \div 146097
        doe == zz - era * 146097
        yoe == (doe - doe \div 1460 + doe \div 36524 - doe \div 146096) \div 365
        doy == doe - (365 * yoe + yoe \div 4 - yoe \div 100)
        mp  == (5 * doy + 2) \div 153
        d   == doy - (153 * mp + 2) \div 5 + 1
        m   == IF mp < 10 THEN mp + 3 ELSE mp - 9
        y   == yoe + era * 400 + (IF m <= 2 THEN 1 ELSE 0)
    IN  [year |-> y, month |-> m, day |-> d]

IsLeap(y) == (y % 4 = 0 /\ y % 100 # 0) \/ y % 400 = 0

DaysInMonth(y, m) ==
    IF m = 2 THEN (IF IsLeap(y) THEN 29 ELSE 28)
    ELSE IF m \in {4, 6, 9, 11} THEN 30 ELSE 31

\* Utc.timestamp_opt(secs, 0).single(): Some iff the date is in chrono's range
timestamp_opt(t) == t.day >= ChronoMinDay /\ t.day <= ChronoMaxDay

\* a < b on raw timestamps
TimeLess(a, b) == a.day < b.day \/ (a.day = b.day /\ a.sec < b.sec)

\* the instant s seconds (0 <= s < 86400) after t
AddSecs(t, s) ==
    IF t.sec + s >= SecsPerDay
    THEN [day |-> t.day + 1, sec |-> t.sec + s - SecsPerDay]
    ELSE [day |-> t.day, sec |-> t.sec + s]

---------------------------------------------------------------------------
(* Strings as sequences of characters; DATE_FORMAT = "%Y.%m.%d" *)

DigitChars == <<"0", "1", "2", "3", "4", "5", "6", "7", "8", "9">>

DigitValue == [c \in {DigitChars[i] : i \in 1..10} |->
                  (CHOOSE i \in 1..10 : DigitChars[i] = c) - 1]

IsDigit(c) == c \in DOMAIN DigitValue

RECURSIVE Decimal(_)
\* the decimal digits of n >= 0, without padding
Decimal(n) ==
    IF n < 10 THEN <<DigitChars[n + 1]>>
    ELSE Decimal(n \div 10) \o <<DigitChars[(n % 10) + 1]>>

RECURSIVE ZeroPad(_, _)
ZeroPad(s, width) == IF Len(s) >= width THEN s ELSE ZeroPad(<<"0">> \o s, width)

\* %Y: zero-padded to 4 digits, with a sign outside 0..9999
FormatYear(y) ==
    IF y < 0 THEN <<"-">> \o ZeroPad(Decimal(-y), 4)
    ELSE IF y > 9999 THEN <<"+">> \o Decimal(y)
    ELSE ZeroPad(Decimal(y), 4)

\* dt.format(DATE_FORMAT).to_string()
FormatDate(date) ==
    FormatYear(date.year) \o <<".">> \o ZeroPad(Decimal(date.month), 2)
        \o <<".">> \o ZeroPad(Decimal(date.day), 2)

RECURSIVE DigitsEnd(_, _, _)
\* a numeric item reading s from position i, at most left digits: the position
\* after the last digit it takes
DigitsEnd(s, i, left) ==
    IF left = 0 \/ i > Len(s) THEN i
    ELSE IF IsDigit(s[i]) THEN DigitsEnd(s, i + 1, left - 1) ELSE i

RECURSIVE Number(_, _, _)
\* the value of the digits s[i], .., s[j - 1]
Number(s, i, j) ==
    IF j <= i THEN 0 ELSE Number(s, i, j - 1) * 10 + DigitValue[s[j - 1]]

ParseError == [ok |-> FALSE]

\* the rest of "%Y.%m.%d" once the year y is read and the text goes on at p
ParseMonthDay(s, y, p) ==
    LET q == DigitsEnd(s, p + 1, 2)
        e == DigitsEnd(s, q + 1, 2)
        m == Number(s, p + 1, q)
        d == Number(s, q + 1, e)
    IN  IF p > Len(s) \/ s[p] # "." \/ q = p + 1 THEN ParseError
        ELSE IF q > Len(s) \/ s[q] # "." \/ e = q + 1 THEN ParseError
        ELSE IF e <= Len(s) THEN ParseError
        ELSE IF m < 1 \/ m > 12 \/ d < 1 \/ d > DaysInMonth(y, m) THEN ParseError
        ELSE [ok |-> TRUE, year |-> y, month |-> m, day |-> d]

\* NaiveDate::parse_from_str(s, "%Y.%m.%d"): %Y takes an optional sign and 1..4
\* digits (up to 9 here after a sign), %m and %d take 1..2 digits; anything
\* left over, a missing literal or an impossible calendar date is an error
ParseNaiveDate(s) ==
    LET signed == Len(s) > 0 /\ s[1] \in {"+", "-"}
        from   == IF signed THEN 2 ELSE 1
        p      == DigitsEnd(s, from, IF signed THEN 9 ELSE 4)
        y      == IF signed /\ s[1] = "-" THEN -Number(s, from, p) ELSE Number(s, from, p)
    IN  IF p = from THEN ParseError ELSE ParseMonthDay(s, y, p)

RECURSIVE Find(_, _, _)
\* the first position >= i of character c in s, Len(s) + 1 when there is none
Find(s, c, i) ==
    IF i > Len(s) THEN i ELSE IF s[i] = c THEN i ELSE Find(s, c, i + 1)

\* index_name.split('-').nth(1).unwrap_or(""): the piece between the first
\* and the second '-', empty when there is no '-'
SplitNth1(s) ==
    LET first == Find(s, "-", 1)
    IN  IF first > Len(s) THEN <<>>
        ELSE SubSeq(s, first + 1, Find(s, "-", first + 1) - 1)

---------------------------------------------------------------------------
(* Events (nostr_sdk::Event) and the kinds the code names *)

Metadata == 0
TextNote == 1
ContactList == 3
EventDeletion == 5
ChannelMetadata == 41
LongFormTextNote == 30023
\* Kind::Replaceable(_): the replaceable range of the protocol
ReplaceableMin == 10000
ReplaceableMax == 19999

\* the day of the clock's first reading (2023-03-20, the day test_can_exist uses)
StartDay == 19436

StartTime == [day |-> StartDay, sec |-> 0]

\* a created_at past the last date chrono can represent
OutOfRange == [day |-> ChronoMaxDay + 1, sec |-> 0]

EvA == [id |-> "A", pubkey |-> "pk1", kind |-> Metadata,
        created_at |-> [day |-> StartDay - 1, sec |-> 36000], tags |-> <<>>]
EvB == [id |-> "B", pubkey |-> "pk1", kind |-> Metadata,
        created_at |-> [day |-> StartDay, sec |-> 1], tags |-> <<>>]
\* on the last day of the retention window at the start of the run
EvT == [id |-> "T", pubkey |-> "pk2", kind |-> TextNote,
        created_at |-> [day |-> StartDay - 6, sec |-> 86399], tags |-> <<>>]
\* two days ahead of the clock at the start of the run
EvF == [id |-> "F", pubkey |-> "pk2", kind |-> Metadata,
        created_at |-> [day |-> StartDay + 2, sec |-> 0], tags |-> <<>>]
EvX == [id |-> "X", pubkey |-> "pk1", kind |-> TextNote,
        created_at |-> OutOfRange, tags |-> <<>>]
EvL == [id |-> "L", pubkey |-> "pk1", kind |-> LongFormTextNote,
        created_at |-> [day |-> StartDay, sec |-> 0], tags |-> <<>>]
EvC == [id |-> "C", pubkey |-> "pk2", kind |-> ContactList,
        created_at |-> [day |-> StartDay, sec |-> 0], tags |-> <<>>]
\* a deletion request of pk1: pk2's T, an id nobody has (Z), its own A, and a
\* tag that is no event reference
EvD1 == [id |-> "D1", pubkey |-> "pk1", kind |-> EventDeletion,
         created_at |-> [day |-> StartDay, sec |-> 2],
         tags |-> << <<"e", "T">>, <<"p", "pk2">>, <<"e", "Z">>, <<"e", "A">> >>]
EvD2 == [id |-> "D2", pubkey |-> "pk2", kind |-> EventDeletion,
         created_at |-> [day |-> StartDay, sec |-> 3],
         tags |-> << <<"e", "T">> >>]

Events == {EvA, EvB, EvT, EvF, EvX, EvL, EvC, EvD1, EvD2}

EventById(id) == CHOOSE e \in Events : e.id = id

---------------------------------------------------------------------------
(* The document store (Elasticsearch) as the pipeline uses it *)

\* index_template_name and alias_name of main: both "nostr"
Nostr == <<"n", "o", "s", "t", "r">>

\* the template's index_patterns "nostr-*" with alias "nostr": the indices
\* a search or delete-by-query on the alias covers
InAlias(index) ==
    Len(index) > Len(Nostr) /\ SubSeq(index, 1, Len(Nostr) + 1) = Nostr \o <<"-">>

\* outcome of one store call: success, a non-success status, a transport error
Outcomes == {"ok", "status", "transport"}

\* the outcomes of the n store calls one handler may issue, at most MaxFaults
\* of them failures
Plans(n) ==
    LET failing == {S \in SUBSET (1..n) : Cardinality(S) <= MaxFaults}
    IN  UNION {{[i \in 1..n |-> IF i \in S THEN m[i] ELSE "ok"] :
                    m \in [S -> Outcomes \ {"ok"}]} : S \in failing}

Call(op, target, id, res, n) ==
    [op |-> op, target |-> target, id |-> id, res |-> res, n |-> n]

\* EsIndex appending a document where it should overwrite the one of that id
EsIndex_append(st, index, id, event, t) ==
    st \cup {[index |-> index, id |-> id, event |-> event, timestamp |-> t]}

\* index(IndexParts::IndexId(index, id)).body(doc): create or overwrite the
\* document (index, id); the default pipeline stamps it with the ingest time
EsIndex(st, index, id, event, t) ==
    {d \in st : ~(d.index = index /\ d.id = id)}
        \cup {[index |-> index, id |-> id, event |-> event, timestamp |-> t]}

\* delete(DeleteParts::IndexId(index, id))
EsDelete(st, index, id) == {d \in st : ~(d.index = index /\ d.id = id)}

\* EsSearchId without the term on _id
EsSearchId_any(st, id) == {d \in st : InAlias(d.index)}

\* search on the alias for term _id = id
EsSearchId(st, id) == {d \in st : InAlias(d.index) /\ d.id = id}

---------------------------------------------------------------------------
(* index_name_for_event, can_exist *)

\* index_name_for_event with a date format that stops at the month
index_name_for_event_monthly(prefix, event) ==
    LET date == CivilFromDays(event.created_at.day)
    IN  [ok |-> timestamp_opt(event.created_at),
         name |-> prefix \o <<"-">> \o FormatYear(date.year) \o <<".">>
                      \o ZeroPad(Decimal(date.month), 2)]

index_name_for_event(prefix, event) ==
    IF timestamp_opt(event.created_at)
    THEN [ok |-> TRUE,
          name |-> prefix \o <<"-">> \o FormatDate(CivilFromDays(event.created_at.day))]
    ELSE [ok |-> FALSE, name |-> <<>>]

\* the comparison of can_exist once the date string is parsed
WithinWindow(index_date, current_time, ttl_in_days, allow_future_days) ==
    IF ~index_date.ok THEN [ok |-> FALSE, value |-> FALSE]
    ELSE LET index_day == DaysFromCivil(index_date.year, index_date.month,
                                        index_date.day)
             \* current_time.signed_duration_since(index_time), in seconds
             diff      == (current_time.day - index_day) * SecsPerDay + current_time.sec
         IN  [ok |-> TRUE,
              value |-> (-(allow_future_days * SecsPerDay) <= diff
                         /\ diff < ttl_in_days * SecsPerDay)]

\* can_exist with the upper edge of the window inclusive
can_exist_inclusive(index_name, current_time, ttl_in_days, allow_future_days) ==
    LET d == ParseNaiveDate(SplitNth1(index_name))
    IN  IF ~d.ok THEN [ok |-> FALSE, value |-> FALSE]
        ELSE LET diff == (current_time.day - DaysFromCivil(d.year, d.month, d.day))
                            * SecsPerDay + current_time.sec
             IN  [ok |-> TRUE,
                  value |-> (-(allow_future_days * SecsPerDay) <= diff
                             /\ diff <= ttl_in_days * SecsPerDay)]

\* Ok(bool) or Err: [ok, value]
can_exist(index_name, current_time, ttl_in_days, allow_future_days) ==
    WithinWindow(ParseNaiveDate(SplitNth1(index_name)), current_time,
                 ttl_in_days, allow_future_days)

\* the retention parameters handle_update passes
TtlDays == 7
AllowFutureDays == 1

\* Writable judged against the clock's first reading, not the current one
Writable_stale(index_name, t) ==
    LET r == can_exist(index_name, StartTime, TtlDays, AllowFutureDays)
    IN  IF r.ok THEN r.value ELSE FALSE

\* can_exist(&index_name, &Utc::now(), 7, 1).unwrap_or(false)
Writable(index_name, t) ==
    LET r == can_exist(index_name, t, TtlDays, AllowFutureDays)
    IN  IF r.ok THEN r.value ELSE FALSE

\* is_replaceable_event without the arm of the kinds named one by one
is_replaceable_event_range(event) ==
    event.kind >= ReplaceableMin /\ event.kind <= ReplaceableMax

is_replaceable_event(event) ==
    \/ (event.kind >= ReplaceableMin /\ event.kind <= ReplaceableMax)
    \/ event.kind \in {Metadata, ContactList, ChannelMetadata}

---------------------------------------------------------------------------
(* convert_tags *)

\* the bytes of the UTF-8 encoding of a character; a character outside ASCII
\* is written as its code point
Utf8Width(c) ==
    IF c = "U+00E9" THEN 2 ELSE IF c = "U+3042" THEN 3 ELSE 1

RECURSIVE ByteLen(_)
\* String::len(): the length in bytes
ByteLen(s) == IF s = <<>> THEN 0 ELSE Utf8Width(Head(s)) + ByteLen(Tail(s))

\* the body of the loop for the tag t (t.as_vec()), tag the map built so far
ConvertTag(tag, t) ==
    IF Len(t) < 2 THEN tag
    ELSE IF ByteLen(t[1]) # 1 THEN tag
    ELSE IF t[1] \in DOMAIN tag THEN [tag EXCEPT ![t[1]] = @ \cup {t[2]}]
    ELSE [k \in DOMAIN tag \cup {t[1]} |-> IF k = t[1] THEN {t[2]} ELSE tag[k]]

RECURSIVE ConvertFrom(_, _, _)
\* for t in tags, from the i-th on
ConvertFrom(tags, i, tag) ==
    IF i > Len(tags) THEN tag
    ELSE ConvertFrom(tags, i + 1, ConvertTag(tag, tags[i]))

\* a HashMap<String, HashSet<String>> as a function from keys to sets
convert_tags(tags) == ConvertFrom(tags, 1, [k \in {} |-> {}])

---------------------------------------------------------------------------
(* handle_update *)

Outcome(st, result, calls, logs) ==
    [store |-> st, result |-> result, refs |-> <<>>, calls |-> calls, logs |-> logs]

\* ReconcileMatch with the range the wrong way round (gt for lt)
ReconcileMatch_newer(event, d) ==
    /\ d.event.pubkey = event.pubkey
    /\ d.event.kind = event.kind
    /\ TimeLess(event.created_at, d.event.created_at)

\* ReconcileMatch with the range lte for lt
ReconcileMatch_lte(event, d) ==
    /\ d.event.pubkey = event.pubkey
    /\ d.event.kind = event.kind
    /\ ~TimeLess(event.created_at, d.event.created_at)

\* the delete-by-query body: term event.pubkey, term event.kind,
\* range event.created_at lt
ReconcileMatch(event, d) ==
    /\ d.event.pubkey = event.pubkey
    /\ d.event.kind = event.kind
    /\ TimeLess(d.event.created_at, event.created_at)

\* ReconcileHits looking only into the partition of the event itself
ReconcileHits_partition(st, alias, event) ==
    {d \in st : /\ d.index = index_name_for_event(alias, event).name
                /\ ReconcileMatch(event, d)}

\* the documents a delete_by_query on the alias removes for event
ReconcileHits(st, alias, event) ==
    {d \in st : InAlias(d.index) /\ ReconcileMatch(event, d)}

\* handle_update from the retention check on, nm the result of
\* index_name_for_event; r[1] is the outcome of the index call, r[2] that of
\* the delete_by_query; a result of "Err" is the Err the function returns
UpdateNamed(st, t, nm, alias_name, event, r) ==
    IF ~nm.ok THEN Outcome(st, "Err", <<>>, <<>>)
    ELSE IF ~Writable(nm.name, t) THEN Outcome(st, "Ok", <<>>, <<"warn">>)
    ELSE LET \* n: the documents the call replaced (result "updated" for 1)
             indexCall == Call("index", nm.name, event.id, r[1],
                               IF r[1] = "ok"
                               THEN Cardinality({d \in st : d.index = nm.name
                                                              /\ d.id = event.id})
                               ELSE 0) IN
         IF r[1] = "transport" THEN Outcome(st, "Err", <<indexCall>>, <<>>)
    ELSE LET st1   == IF r[1] = "ok" THEN EsIndex(st, nm.name, event.id, event, t)
                      ELSE st
             logs1 == IF r[1] = "ok" THEN <<>> ELSE <<"error">> IN
         IF ~is_replaceable_event(event)
         THEN Outcome(st1, "Ok", <<indexCall>>, logs1)
    ELSE IF r[2] # "ok"
         THEN Outcome(st1, "Err",
                      <<indexCall, Call("delete_by_query", alias_name, "", r[2], 0)>>,
                      logs1)
    ELSE LET hits == ReconcileHits(st1, alias_name, event) IN
         Outcome(st1 \ hits, "Ok",
                 <<indexCall,
                   Call("delete_by_query", alias_name, "", r[2], Cardinality(hits))>>,
                 logs1)

\* handle_update naming the partition for the day of handling
handle_update_today(st, t, index_prefix, alias_name, event, r) ==
    UpdateNamed(st, t, index_name_for_event(index_prefix, [event EXCEPT !.created_at = t]),
                alias_name, event, r)

handle_update(st, t, index_prefix, alias_name, event, r) ==
    UpdateNamed(st, t, index_name_for_event(index_prefix, event), alias_name, event, r)

---------------------------------------------------------------------------
(* delete_event, handle_deletion_event *)

\* ok_to_delete without the comparison of the keys
ok_to_delete_any(pubkey, stored) == TRUE

\* *pubkey == event_to_be_deleted.pubkey
ok_to_delete(pubkey, stored) == pubkey = stored.pubkey

\* rs is the outcome of the search call, rd that of the delete call.  The
\* result is Ok or the error returned: StoreError, NotFound, Unauthorized.
delete_event(st, alias_name, id, pubkey, rs, rd) ==
    LET searchCall == Call("search", alias_name, id, rs, 0)
        hits       == EsSearchId(st, id)
        \* size(1): the first hit
        hit        == CHOOSE d \in hits : TRUE
        deleteCall == Call("delete", hit.index, id, rd, 0)
    IN  IF rs # "ok" THEN Outcome(st, "StoreError", <<searchCall>>, <<>>)
        ELSE IF hits = {} THEN Outcome(st, "NotFound", <<searchCall>>, <<>>)
        ELSE IF ~ok_to_delete(pubkey, hit.event)
             THEN Outcome(st, "Unauthorized", <<searchCall>>, <<>>)
        ELSE IF rd = "transport"
             THEN Outcome(st, "StoreError", <<searchCall, deleteCall>>, <<>>)
        ELSE IF rd = "status"
             THEN Outcome(st, "StoreError", <<searchCall, deleteCall>>, <<"error">>)
        ELSE Outcome(EsDelete(st, hit.index, id), "Ok", <<searchCall, deleteCall>>, <<>>)

\* if let Tag::Event(e, _, _) = tag
IsEventTag(tag) == Len(tag) >= 2 /\ tag[1] = "e"

\* the event-reference tags of an event, in tag order
EventRefs(event) == SelectSeq(event.tags, IsEventTag)

\* the record of one delete_event followed by that of the rest of the loop
Joined(id, pubkey, one, more) ==
    [store  |-> more.store,
     result |-> "none",
     refs   |-> <<[id |-> id, author |-> pubkey, result |-> one.result]>> \o more.refs,
     calls  |-> one.calls \o more.calls,
     logs   |-> (IF one.result = "Ok" THEN one.logs ELSE one.logs \o <<"error">>)
                    \o more.logs]

\* RefsAfter leaving the loop at the first failure
RefsAfter_abort(result, rest) == IF result = "Ok" THEN rest ELSE <<>>

\* what the loop over the tags does after a delete_event: on Err it logs the
\* error and continues with the next tag
RefsAfter(result, rest) == rest

RECURSIVE DeleteRefs(_, _, _, _, _, _)

\* one round of the loop, one being what delete_event returned for refs[1]
RefDone(index_name, refs, pubkey, r, k, one) ==
    Joined(refs[1][2], pubkey, one,
           DeleteRefs(one.store, index_name, RefsAfter(one.result, Tail(refs)),
                      pubkey, r, k + 1))

\* the loop of handle_deletion_event over the references refs, the k-th
\* delete_event taking the outcomes r[2k-1] (search) and r[2k] (delete)
DeleteRefs(st, index_name, refs, pubkey, r, k) ==
    IF Len(refs) = 0
    THEN Outcome(st, "none", <<>>, <<>>)
    ELSE RefDone(index_name, refs, pubkey, r, k,
                 delete_event(st, index_name, refs[1][2], pubkey, r[2 * k - 1], r[2 * k]))

\* always returns Ok(())
handle_deletion_event(st, index_name, event, r) ==
    [DeleteRefs(st, index_name, EventRefs(event), event.pubkey, r, 1)
        EXCEPT !.result = "Ok"]

---------------------------------------------------------------------------
(* main: the consumer loop *)

\* Route with long-form content taken as text content
Route_longform(kind) ==
    IF kind \in {Metadata, TextNote, LongFormTextNote} THEN "update"
    ELSE IF kind = EventDeletion THEN "deletion"
    ELSE "ignore"

\* match event.kind { Metadata | TextNote => .., EventDeletion => .., _ => continue }
Route(kind) ==
    IF kind \in {Metadata, TextNote} THEN "update"
    ELSE IF kind = EventDeletion THEN "deletion"
    ELSE "ignore"

NoEvent == [ev |-> "none", route |-> "none", result |-> "none",
            refs |-> <<>>, calls |-> <<>>, logs |-> <<>>]

\* the plans of a handler that issues up to n store calls
PlanTable == [n \in {2} \cup {2 * Len(EventRefs(e)) : e \in Events} |-> Plans(n)]

NoProbe == [fn |-> "none"]

\* the instances of the indexer that run side by side on one store
Procs == {"p1", "p2"}

\* an instance waiting in notifications.recv(), handled counting the
\* notifications it has dealt with
Waiting(handled) == [pc |-> "recv", ev |-> "none", index_name |-> <<>>, handled |-> handled]

NoInstances == [p \in Procs |-> Waiting(0)]

Init ==
    /\ store = {}
    /\ now = StartTime
    /\ running = TRUE
    /\ last = NoEvent
    /\ reconciled = {}
    /\ probe = NoProbe
    /\ instances = NoInstances
    /\ ops = <<>>
    /\ deletions = {}

\* the clock advances
Tick ==
    /\ (now.day - StartDay) * SecsPerDay + now.sec < MaxTicks * TickSecs
    /\ now' = AddSecs(now, TickSecs)
    /\ UNCHANGED <<store, running, last, reconciled, probe, raceVars, deletions>>

\* the loop once a handler has returned out for event e: `?` on an Err ends
\* main, otherwise the loop takes the next notification
Handled(e, route, out) ==
    /\ store' = out.store
    /\ running' = (out.result = "Ok")
    /\ last' = [ev |-> e.id, route |-> route, result |-> out.result,
                refs |-> out.refs, calls |-> out.calls, logs |-> out.logs]
    /\ reconciled' = IF route = "update" /\ out.result = "Ok" /\ Len(out.calls) = 2
                        /\ out.calls[1].res = "ok"
                     THEN reconciled \cup {e.id} ELSE reconciled
    /\ UNCHANGED <<now, probe, raceVars>>

\* handle_update(&es_client, &alias_name, &index_template_name, &event).await?
\* on a notification out of evs
RecvUpdateOf(evs) ==
    /\ running
    /\ \E e \in evs, r \in PlanTable[2] :
          /\ Route(e.kind) = "update"
          /\ Handled(e, "update", handle_update(store, now, Nostr, Nostr, e, r))

RecvUpdate == RecvUpdateOf(Events) /\ UNCHANGED deletions

\* handle_deletion_event(&es_client, &index_template_name, &event).await?
\* on a notification out of evs
RecvDeletionOf(evs) ==
    /\ running
    /\ \E e \in evs :
          /\ Route(e.kind) = "deletion"
          /\ \E r \in PlanTable[2 * Len(EventRefs(e))] :
                Handled(e, "deletion", handle_deletion_event(store, Nostr, e, r))

RecvDeletion == RecvDeletionOf(Events) /\ UNCHANGED deletions

\* _ => continue
RecvIgnored ==
    /\ running
    /\ \E e \in Events :
          /\ Route(e.kind) = "ignore"
          /\ last' = [ev |-> e.id, route |-> "ignore", result |-> "Ok",
                      refs |-> <<>>, calls |-> <<>>, logs |-> <<>>]
    /\ UNCHANGED <<store, now, running, reconciled, probe, raceVars, deletions>>

Next == Tick \/ RecvUpdate \/ RecvDeletion \/ RecvIgnored

Spec == Init /\ [][Next]_vars

---------------------------------------------------------------------------
(* The consumer loop on deletion requests and the events they refer to, with
   the history of the references handled *)

RedeliveryEvents == {EvA, EvT, EvD1, EvD2}

\* of the references refs of a deletion request, with what delete_event
\* returned for each, those of known events that ended Ok or not found
Settled(refs) ==
    {[id |-> refs[i].id, result |-> refs[i].result] :
        i \in {j \in 1..Len(refs) : /\ refs[j].result \in {"Ok", "NotFound"}
                                     /\ \E e \in Events : e.id = refs[j].id}}

TickRedelivery == Tick

UpdateRedelivery == RecvUpdateOf(RedeliveryEvents) /\ UNCHANGED deletions

DeletionRedelivery ==
    /\ RecvDeletionOf(RedeliveryEvents)
    /\ deletions' = deletions \cup Settled(last'.refs)

NextRedelivery == TickRedelivery \/ UpdateRedelivery \/ DeletionRedelivery

SpecRedelivery == Init /\ [][NextRedelivery]_vars

---------------------------------------------------------------------------
(* Two instances of the indexer on one store: handle_update taken apart at
   its await points, each store call served atomically *)

Op(p, op, ev, res) == [proc |-> p, op |-> op, ev |-> ev, res |-> res]

\* the failed calls among the calls served so far
Faults == Cardinality({i \in 1..Len(ops) : ops[i].res # "ok"})

\* the Err that `?` hands to main ends the instance
Exited(handled) == [pc |-> "exit", ev |-> "none", index_name |-> <<>>, handled |-> handled]

\* handle_update up to the index call, nm the result of index_name_for_event
Received(p, e, nm) ==
    LET handled == instances[p].handled + 1
    IN  instances' = [instances EXCEPT ![p] =
            IF ~nm.ok THEN Exited(handled)
            ELSE IF ~Writable(nm.name, now) THEN Waiting(handled)
            ELSE [pc |-> "index", ev |-> e.id, index_name |-> nm.name,
                  handled |-> handled]]

\* an instance takes a notification of a kind main passes to handle_update
Receive(p) ==
    /\ instances[p].pc = "recv"
    /\ instances[p].handled < MaxHandled
    /\ \E e \in Events :
          /\ Route(e.kind) = "update"
          /\ Received(p, e, index_name_for_event(Nostr, e))
    /\ UNCHANGED <<store, now, running, last, reconciled, probe, ops, deletions>>

\* the store serves the instance's index call
IndexServed(p) ==
    /\ instances[p].pc = "index"
    /\ \E res \in Outcomes :
          LET self == instances[p]
              e    == EventById(self.ev)
          IN  /\ res # "ok" => Faults < MaxFaults
              /\ store' = IF res = "ok"
                          THEN EsIndex(store, self.index_name, e.id, e, now)
                          ELSE store
              /\ ops' = Append(ops, Op(p, "index", e.id, res))
              /\ instances' = [instances EXCEPT ![p] =
                    IF res = "transport" THEN Exited(self.handled)
                    ELSE IF is_replaceable_event(e)
                         THEN [self EXCEPT !.pc = "reconcile"]
                    ELSE Waiting(self.handled)]
    /\ UNCHANGED <<now, running, last, reconciled, probe, deletions>>

\* the store serves the instance's delete_by_query
ReconcileServed(p) ==
    /\ instances[p].pc = "reconcile"
    /\ \E res \in Outcomes :
          LET self == instances[p]
              e    == EventById(self.ev)
          IN  /\ res # "ok" => Faults < MaxFaults
              /\ store' = IF res = "ok"
                          THEN store \ ReconcileHits(store, Nostr, e)
                          ELSE store
              /\ ops' = Append(ops, Op(p, "delete_by_query", e.id, res))
              /\ instances' = [instances EXCEPT ![p] =
                    IF res = "ok" THEN Waiting(self.handled)
                    ELSE Exited(self.handled)]
    /\ UNCHANGED <<now, running, last, reconciled, probe, deletions>>

NextRace == \E p \in Procs : Receive(p) \/ IndexServed(p) \/ ReconcileServed(p)

SpecRace == Init /\ [][NextRace]_vars

---------------------------------------------------------------------------
(* handle_update applied on its own to events of one kind after another *)

\* the kinds is_replaceable_event names and the kinds next to its range
TestKinds ==
    { Metadata, TextNote, ContactList, ChannelMetadata, LongFormTextNote,
      ReplaceableMin - 1, ReplaceableMin, ReplaceableMax, ReplaceableMax + 1 }

\* events of kind k: an older and a newer one of pk1, one of pk1 with the
\* created_at of the newer, an older one of pk2, and an older one of pk1 of
\* another kind
UnitEvents(k) ==
    { [id |-> "old", pubkey |-> "pk1", kind |-> k,
       created_at |-> [day |-> StartDay - 1, sec |-> 36000], tags |-> <<>>],
      [id |-> "new", pubkey |-> "pk1", kind |-> k,
       created_at |-> [day |-> StartDay, sec |-> 1], tags |-> <<>>],
      [id |-> "tie", pubkey |-> "pk1", kind |-> k,
       created_at |-> [day |-> StartDay, sec |-> 1], tags |-> <<>>],
      [id |-> "other", pubkey |-> "pk2", kind |-> k,
       created_at |-> [day |-> StartDay - 1, sec |-> 0], tags |-> <<>>],
      [id |-> "aside", pubkey |-> "pk1",
       kind |-> IF k = TextNote THEN Metadata ELSE TextNote,
       created_at |-> [day |-> StartDay - 2, sec |-> 0], tags |-> <<>>] }

UpsertProbes == {[fn |-> "handle_update", kind |-> k] : k \in TestKinds}

InitUpsert ==
    /\ store = {}
    /\ now = StartTime
    /\ running = TRUE
    /\ last = NoEvent
    /\ reconciled = {}
    /\ probe \in UpsertProbes
    /\ instances = NoInstances
    /\ ops = <<>>
    /\ deletions = {}

\* handle_update(..).await? on an event of the kind under test
ApplyUpsert ==
    /\ probe.fn = "handle_update"
    /\ running
    /\ \E e \in UnitEvents(probe.kind), r \in PlanTable[2] :
          Handled(e, "update", handle_update(store, now, Nostr, Nostr, e, r))
    /\ UNCHANGED deletions

NextUpsert == ApplyUpsert

SpecUpsert == InitUpsert /\ [][NextUpsert]_vars

---------------------------------------------------------------------------
(* can_exist applied on its own *)

Name(date) == Nostr \o <<"-">> \o date

\* index names with the day number of their date, written out by hand
DatedNames ==
    { [name |-> Name(<<"2","0","2","3",".","0","3",".","1","3">>), day |-> StartDay - 7],
      [name |-> Name(<<"2","0","2","3",".","0","3",".","1","4">>), day |-> StartDay - 6],
      [name |-> Name(<<"2","0","2","3",".","0","3",".","1","8">>), day |-> StartDay - 2],
      [name |-> Name(<<"2","0","2","3",".","0","3",".","1","9">>), day |-> StartDay - 1],
      [name |-> Name(<<"2","0","2","3",".","0","3",".","2","0">>), day |-> StartDay],
      [name |-> Name(<<"2","0","2","3",".","0","3",".","2","1">>), day |-> StartDay + 1],
      [name |-> Name(<<"2","0","2","3",".","0","3",".","2","2">>), day |-> StartDay + 2] }

\* names can_exist cannot read a date from
MalformedNames ==
    { Nostr,
      Name(<<"2","0","2","3",".","0","2",".","3","0">>),
      Name(<<"2","0","2","3",".","0","3">>),
      <<"m","y">> \o <<"-">> \o Name(<<"2","0","2","3",".","0","3",".","2","0">>) }

ProbeTimes ==
    { [day |-> StartDay, sec |-> 0], [day |-> StartDay, sec |-> 1],
      [day |-> StartDay, sec |-> TickSecs], [day |-> StartDay, sec |-> SecsPerDay - 1],
      [day |-> StartDay + 1, sec |-> 0] }

CanExistProbes ==
    { [fn |-> "can_exist", name |-> n.name, dated |-> TRUE, day |-> n.day,
       time |-> t, ttl |-> ttl, future |-> future, done |-> FALSE,
       result |-> [ok |-> FALSE, value |-> FALSE]] :
          n \in DatedNames, t \in ProbeTimes, ttl \in {1, 2, 7}, future \in {0, 1, 2} }
    \cup
    { [fn |-> "can_exist", name |-> n, dated |-> FALSE, day |-> 0,
       time |-> t, ttl |-> ttl, future |-> future, done |-> FALSE,
       result |-> [ok |-> FALSE, value |-> FALSE]] :
          n \in MalformedNames, t \in ProbeTimes, ttl \in {2, 7}, future \in {1} }

InitCanExist ==
    /\ store = {}
    /\ now = StartTime
    /\ running = TRUE
    /\ last = NoEvent
    /\ reconciled = {}
    /\ probe \in CanExistProbes
    /\ instances = NoInstances
    /\ ops = <<>>
    /\ deletions = {}

ApplyCanExist ==
    /\ probe.fn = "can_exist"
    /\ ~probe.done
    /\ probe' = [probe EXCEPT !.done = TRUE,
                              !.result = can_exist(probe.name, probe.time,
                                                   probe.ttl, probe.future)]
    /\ UNCHANGED <<store, now, running, last, reconciled, raceVars, deletions>>

NextCanExist == ApplyCanExist

SpecCanExist == InitCanExist /\ [][NextCanExist]_vars

---------------------------------------------------------------------------
(* index_name_for_event applied on its own *)

\* calendar dates with their day numbers, written out by hand
KnownDates ==
    { [day |-> -1,    date |-> <<"1","9","6","9",".","1","2",".","3","1">>],
      [day |-> 0,     date |-> <<"1","9","7","0",".","0","1",".","0","1">>],
      [day |-> 19416, date |-> <<"2","0","2","3",".","0","2",".","2","8">>],
      [day |-> 19417, date |-> <<"2","0","2","3",".","0","3",".","0","1">>],
      [day |-> 19430, date |-> <<"2","0","2","3",".","0","3",".","1","4">>],
      [day |-> 19435, date |-> <<"2","0","2","3",".","0","3",".","1","9">>],
      [day |-> 19436, date |-> <<"2","0","2","3",".","0","3",".","2","0">>],
      [day |-> 19437, date |-> <<"2","0","2","3",".","0","3",".","2","1">>],
      [day |-> 19438, date |-> <<"2","0","2","3",".","0","3",".","2","2">>],
      [day |-> 19722, date |-> <<"2","0","2","3",".","1","2",".","3","1">>],
      [day |-> 19723, date |-> <<"2","0","2","4",".","0","1",".","0","1">>],
      [day |-> 19782, date |-> <<"2","0","2","4",".","0","2",".","2","9">>],
      [day |-> 19783, date |-> <<"2","0","2","4",".","0","3",".","0","1">>] }

KnownDays == {k.day : k \in KnownDates}

DateOf(day) == (CHOOSE k \in KnownDates : k.day = day).date

\* a prefix other than the one main passes
OtherPrefix == <<"m", "y">>

NameInstants == [day : KnownDays, sec : {0, 36000, SecsPerDay - 1}]

\* two events that differ in every field but, at times, created_at
NameProbes ==
    { [fn |-> "index_name", prefix |-> p,
       a |-> [id |-> "A", pubkey |-> "pk1", kind |-> Metadata,
              created_at |-> ta, tags |-> <<>>],
       b |-> [id |-> "B", pubkey |-> "pk2", kind |-> TextNote,
              created_at |-> tb, tags |-> << <<"e", "A">> >>],
       done |-> FALSE,
       ra |-> [ok |-> FALSE, name |-> <<>>],
       rb |-> [ok |-> FALSE, name |-> <<>>]] :
          p \in {Nostr, OtherPrefix}, ta \in NameInstants, tb \in NameInstants }

InitIndexName ==
    /\ store = {}
    /\ now = StartTime
    /\ running = TRUE
    /\ last = NoEvent
    /\ reconciled = {}
    /\ probe \in NameProbes
    /\ instances = NoInstances
    /\ ops = <<>>
    /\ deletions = {}

ApplyIndexName ==
    /\ probe.fn = "index_name"
    /\ ~probe.done
    /\ probe' = [probe EXCEPT !.done = TRUE,
                              !.ra = index_name_for_event(probe.prefix, probe.a),
                              !.rb = index_name_for_event(probe.prefix, probe.b)]
    /\ UNCHANGED <<store, now, running, last, reconciled, raceVars, deletions>>

NextIndexName == ApplyIndexName

SpecIndexName == InitIndexName /\ [][NextIndexName]_vars

---------------------------------------------------------------------------
(* convert_tags applied on its own *)

\* tags as as_vec() gives them, every element a string of characters
SampleTags ==
    { << <<"e">>, <<"a","b","c">> >>,
      << <<"e">>, <<"a","b","c">>, <<"w","s","s">>, <<"r","o","o","t">> >>,
      << <<"e">>, <<"x","y","z">> >>,
      << <<"p">>, <<"a","b","c">> >>,
      << <<"e","n","c","o","d","i","n","g">>, <<"x">> >>,
      << <<"e">> >>,
      << >>,
      << <<>>, <<"x">> >>,
      << <<"U+00E9">>, <<"x">> >>,
      << <<"U+3042">>, <<"x">> >> }

RECURSIVE TagLists(_)
\* the sequences of n sample tags
TagLists(n) ==
    IF n = 0 THEN {<<>>}
    ELSE {Append(l, t) : l \in TagLists(n - 1), t \in SampleTags}

ConvertProbes ==
    { [fn |-> "convert_tags", tags |-> l, done |-> FALSE, result |-> <<>>] :
          l \in UNION {TagLists(n) : n \in 0..MaxTags} }

InitConvertTags ==
    /\ store = {}
    /\ now = StartTime
    /\ running = TRUE
    /\ last = NoEvent
    /\ reconciled = {}
    /\ probe \in ConvertProbes
    /\ instances = NoInstances
    /\ ops = <<>>
    /\ deletions = {}

ApplyConvertTags ==
    /\ probe.fn = "convert_tags"
    /\ ~probe.done
    /\ probe' = [probe EXCEPT !.done = TRUE, !.result = convert_tags(probe.tags)]
    /\ UNCHANGED <<store, now, running, last, reconciled, raceVars, deletions>>

NextConvertTags == ApplyConvertTags

SpecConvertTags == InitConvertTags /\ [][NextConvertTags]_vars

---------------------------------------------------------------------------
(* can_exist applied to what index_name_for_event gives, as handle_update does *)

\* a prefix with a '-' of its own
HyphenPrefix == <<"m", "y", "-", "n", "o", "s", "t", "r">>

RoundTripProbes ==
    { [fn |-> "round_trip", prefix |-> p,
       event |-> [id |-> "A", pubkey |-> "pk1", kind |-> TextNote,
                  created_at |-> [day |-> n.day, sec |-> sec], tags |-> <<>>],
       time |-> t, done |-> FALSE,
       name |-> [ok |-> FALSE, name |-> <<>>],
       result |-> [ok |-> FALSE, value |-> FALSE]] :
          p \in {Nostr, OtherPrefix, HyphenPrefix}, n \in DatedNames,
          sec \in {0, SecsPerDay - 1}, t \in ProbeTimes }

InitRoundTrip ==
    /\ store = {}
    /\ now = StartTime
    /\ running = TRUE
    /\ last = NoEvent
    /\ reconciled = {}
    /\ probe \in RoundTripProbes
    /\ instances = NoInstances
    /\ ops = <<>>
    /\ deletions = {}

\* the name of the event's partition and what can_exist answers for it
RoundTrip(p, nm) ==
    [p EXCEPT !.done = TRUE, !.name = nm,
              !.result = can_exist(nm.name, p.time, TtlDays, AllowFutureDays)]

ApplyRoundTrip ==
    /\ probe.fn = "round_trip"
    /\ ~probe.done
    /\ probe' = RoundTrip(probe, index_name_for_event(probe.prefix, probe.event))
    /\ UNCHANGED <<store, now, running, last, reconciled, raceVars, deletions>>

NextRoundTrip == ApplyRoundTrip

SpecRoundTrip == InitRoundTrip /\ [][NextRoundTrip]_vars

---------------------------------------------------------------------------
(* What the claims read *)

AllOk(calls) == \A i \in 1..Len(calls) : calls[i].res = "ok"

\* the documents of one (author, kind) pair a query on the alias sees
PairDocs(st, pubkey, kind) ==
    {d \in st : InAlias(d.index) /\ d.event.pubkey = pubkey /\ d.event.kind = kind}

\* the retention window of handle_update for a partition dated day, read at t
InWindow(day, t) ==
    LET diff == (t.day - day) * SecsPerDay + t.sec
    IN  -(AllowFutureDays * SecsPerDay) <= diff /\ diff < TtlDays * SecsPerDay

\* the documents without the ingest timestamp
Content(st) == {[index |-> d.index, id |-> d.id, event |-> d.event] : d \in st}

\* an update pipeline that wrote and, for a replaceable event, reconciled
Completed(l) ==
    l.route = "update" /\ l.result = "Ok" /\ Len(l.calls) >= 1 /\ AllOk(l.calls)

---------------------------------------------------------------------------
(* The claims *)

\* C1: in a deletion request, a reference whose document is found with a
\* pubkey other than the claimed author ends Unauthorized with no delete call
\* and the document kept; a reference whose document has the claimed author's
\* pubkey and whose delete call succeeds ends Ok with exactly that one document
\* gone; no document is removed but by such a reference.
C1_DeleteAuthorization ==
    [][ (now' = now /\ last'.route = "deletion") =>
          /\ store' \subseteq store
          /\ \A d \in store \ store' :
                \E i \in 1..Len(last'.refs) :
                    /\ last'.refs[i].id = d.id
                    /\ last'.refs[i].result = "Ok"
                    /\ last'.refs[i].author = d.event.pubkey
          /\ \A i \in 1..Len(last'.refs) :
                LET ref      == last'.refs[i]
                    found    == {d \in store : d.id = ref.id}
                    searched == \E j \in 1..Len(last'.calls) :
                                    /\ last'.calls[j].op = "search"
                                    /\ last'.calls[j].id = ref.id
                                    /\ last'.calls[j].res = "ok"
                    deletes  == {j \in 1..Len(last'.calls) :
                                    /\ last'.calls[j].op = "delete"
                                    /\ last'.calls[j].id = ref.id}
                IN  (searched /\ found # {}) =>
                      IF \E d \in found : d.event.pubkey # ref.author
                      THEN /\ ref.result = "Unauthorized"
                           /\ deletes = {}
                           /\ found \subseteq store'
                      ELSE /\ deletes # {}
                           /\ (\A j \in deletes : last'.calls[j].res = "ok") =>
                                 /\ ref.result = "Ok"
                                 /\ Cardinality(found) = 1
                                 /\ found \cap store' = {}
                                 /\ \A j \in deletes :
                                       \E d \in found : last'.calls[j].target = d.index
    ]_vars

\* a request was handled in which one reference was refused and its document
\* kept, and another, of the author's own document, was deleted
C1_Witness ==
    /\ last.route = "deletion"
    /\ \E i, j \in 1..Len(last.refs) :
          /\ last.refs[i].result = "Unauthorized"
          /\ \E d \in store : d.id = last.refs[i].id /\ d.event.pubkey # last.refs[i].author
          /\ last.refs[j].result = "Ok"
          /\ ~\E d \in store : d.id = last.refs[j].id

\* C2: once the pipeline of a replaceable event b has completed with every
\* store call succeeding, no document with the created_at of an older event a
\* of the same author and kind is visible through the alias, and b's document
\* is there.
C2_ReconcileInOrder ==
    \A a, b \in Events :
        ( /\ Completed(last) /\ last.ev = b.id
          /\ is_replaceable_event(b)
          /\ a.pubkey = b.pubkey /\ a.kind = b.kind
          /\ TimeLess(a.created_at, b.created_at) )
        => /\ ~\E d \in PairDocs(store, b.pubkey, b.kind) :
                   d.event.created_at = a.created_at
           /\ \E d \in PairDocs(store, b.pubkey, b.kind) : d.id = b.id

\* B's pipeline has completed and its delete_by_query removed A's document
C2_Witness ==
    /\ Completed(last) /\ last.ev = "B"
    /\ "A" \in reconciled
    /\ Len(last.calls) = 2 /\ last.calls[2].n = 1

\* C3: once the pipeline of the event with the greatest created_at of an
\* (author, kind) pair has completed, at most one document of the pair is
\* visible through the alias between events, whatever the order of delivery.
C3_LatestWins ==
    \A e \in Events :
        ( /\ e.id \in reconciled
          /\ \A o \in Events :
                (o.pubkey = e.pubkey /\ o.kind = e.kind) =>
                    ~TimeLess(e.created_at, o.created_at) )
        => Cardinality(PairDocs(store, e.pubkey, e.kind)) <= 1

\* C4: a failing store call of the update pipeline does not end the loop.
C4_StoreFailureKeepsLoop ==
    (last.route = "update" /\ ~AllOk(last.calls)) => running

\* C5: an update event whose created_at is no valid instant causes no store
\* call and does not end the loop.
C5_BadTimestampDropped ==
    (last.route = "update" /\ ~timestamp_opt(EventById(last.ev).created_at))
        => (last.calls = <<>> /\ running)

\* C6: a deletion request leads to one delete_event per event-reference tag, in
\* tag order, each with the request's own pubkey and each starting with its
\* search, whatever the earlier ones returned; the handler returns Ok and the
\* loop goes on.
C6_EveryReferenceProcessed ==
    last.route = "deletion" =>
        LET e        == EventById(last.ev)
            refs     == EventRefs(e)
            searches == SelectSeq(last.calls, LAMBDA c : c.op = "search")
        IN  /\ Len(last.refs) = Len(refs)
            /\ \A i \in 1..Len(refs) :
                  /\ last.refs[i].id = refs[i][2]
                  /\ last.refs[i].author = e.pubkey
            /\ Len(searches) = Len(refs)
            /\ \A i \in 1..Len(refs) : searches[i].id = refs[i][2]
            /\ last.result = "Ok"
            /\ running

\* of three references the first was refused, the second failed in the store
\* or was not found, and the third was still deleted
C6_Witness ==
    /\ last.route = "deletion" /\ Len(last.refs) = 3
    /\ last.refs[1].result = "Unauthorized"
    /\ last.refs[2].result \in {"NotFound", "StoreError"}
    /\ last.refs[3].result = "Ok"
    /\ running

\* an update of event last'.ev right after a completed update of the same event
\* (only the clock may have moved in between)
SameEventAgain ==
    /\ now' = now
    /\ Completed(last) /\ Completed(last')
    /\ last'.ev = last.ev

\* C7 as stated: the second processing of the same event leaves one document
\* of that id and the store as the first left it.
C7_UpsertIdempotent ==
    [][ SameEventAgain =>
          /\ Cardinality({d \in store' : d.id = last'.ev}) = 1
          /\ store' = store ]_vars

\* C7 as amended: the second processing leaves one document of that id, and the
\* store as the first left it but for the ingest timestamp of that document,
\* which is the time of the second processing.
C7_UpsertIdempotentContent ==
    [][ SameEventAgain =>
          /\ Cardinality({d \in store' : d.id = last'.ev}) = 1
          /\ Content(store') = Content(store)
          /\ \A d \in store' : d.id # last'.ev => d \in store
          /\ \A d \in store' : d.id = last'.ev => d.timestamp = now ]_vars

\* an event whose document was there was processed again (its index call
\* replaced a document) after the clock had moved
C7_Witness ==
    /\ Completed(last)
    /\ last.calls[1].n = 1
    /\ now # StartTime
    /\ \E d \in store : d.id = last.ev /\ d.timestamp = now

\* C8: an update event whose partition is outside the retention window at the
\* time it is handled causes no store call, leaves the store as it is and
\* returns Ok; every document was written inside the window of its partition.
C8_RetentionGate ==
    [][ /\ ( /\ now' = now /\ last'.route = "update"
             /\ timestamp_opt(EventById(last'.ev).created_at)
             /\ ~InWindow(EventById(last'.ev).created_at.day, now) )
           => /\ last'.calls = <<>>
              /\ store' = store
              /\ last'.result = "Ok"
              /\ running'
        /\ \A d \in store' : InWindow(d.event.created_at.day, d.timestamp)
    ]_vars

\* T, written while its partition was writable, was delivered again after the
\* partition left the window and was skipped
C8_Witness ==
    /\ last.route = "update" /\ last.ev = "T"
    /\ last.calls = <<>> /\ last.logs = <<"warn">>
    /\ \E d \in store : d.id = "T"
    /\ running

\* C9: can_exist on a name dated D answers Ok(true) iff
\* -allow_future_days <= now - (D at 00:00 UTC) < ttl_in_days, the lower edge
\* included and the upper one not; at 2023-03-20T00:00Z with ttl 2 and future 1
\* that is 03-22 false, 03-21 true, 03-20 true, 03-19 true, 03-18 false.
C9_CanExistWindow ==
    (probe.fn = "can_exist" /\ probe.done /\ probe.dated) =>
        LET diff == (probe.time.day - probe.day) * SecsPerDay + probe.time.sec
        IN  /\ probe.result.ok
            /\ probe.result.value <=>
                  ( /\ -(probe.future * SecsPerDay) <= diff
                    /\ diff < probe.ttl * SecsPerDay )
            /\ (probe.time = StartTime /\ probe.ttl = 2 /\ probe.future = 1) =>
                  /\ probe.day = StartDay + 2 => ~probe.result.value
                  /\ probe.day \in {StartDay + 1, StartDay, StartDay - 1}
                        => probe.result.value
                  /\ probe.day = StartDay - 2 => ~probe.result.value

\* the lower edge was met exactly and accepted: at 2023-03-20T00:00Z with
\* future 1 the name dated 2023-03-21 can exist
C9_Witness ==
    /\ probe.fn = "can_exist" /\ probe.done /\ probe.dated
    /\ probe.time = StartTime
    /\ probe.ttl = 2 /\ probe.future = 1
    /\ probe.day = StartDay + 1 /\ probe.result.value

\* what the loop did with the event it has just handled (last', on a step of
\* the loop), update being the route of the kinds in upserted
Classified(upserted) ==
    now' = now =>
        LET e == EventById(last'.ev)
        IN  /\ e.kind \in upserted =>
                  /\ last'.route = "update"
                  /\ ( /\ timestamp_opt(e.created_at)
                       /\ InWindow(e.created_at.day, now) )
                     => /\ Len(last'.calls) >= 1
                        /\ last'.calls[1].op = "index"
                        /\ last'.calls[1].id = e.id
            /\ e.kind = EventDeletion =>
                  /\ last'.route = "deletion"
                  /\ Len(last'.refs) = Len(EventRefs(e))
            /\ e.kind \notin upserted \cup {EventDeletion} =>
                  /\ last'.route = "ignore"
                  /\ last'.calls = <<>> /\ last'.logs = <<>>
                  /\ last'.result = "Ok"
                  /\ store' = store /\ running' = running
                  /\ reconciled' = reconciled

C11_NameFor ==
    (probe.fn = "index_name" /\ probe.done) =>
        LET ta == probe.a.created_at
            tb == probe.b.created_at
        IN  /\ probe.ra.ok /\ probe.rb.ok
            /\ probe.ra.name = probe.prefix \o <<"-">> \o DateOf(ta.day)
            /\ probe.rb.name = probe.prefix \o <<"-">> \o DateOf(tb.day)
            /\ ta.day = tb.day => probe.ra.name = probe.rb.name
            /\ ta.day # tb.day => probe.ra.name # probe.rb.name
            /\ (tb.day = ta.day + 1 /\ ta.sec = SecsPerDay - 1 /\ tb.sec = 0)
                  => probe.ra.name # probe.rb.name

\* the names of 2023-12-31T23:59:59Z and 2024-01-01T00:00:00Z were computed
\* and differ
C11_Witness ==
    /\ probe.fn = "index_name" /\ probe.done
    /\ probe.a.created_at = [day |-> 19722, sec |-> SecsPerDay - 1]
    /\ probe.b.created_at = [day |-> 19723, sec |-> 0]
    /\ probe.ra.name # probe.rb.name

\* the map from the first elements, of keyLen(key) = 1, of the tags of at least
\* two elements to the sets of their second elements
TagIndex(tags, keyLen(_)) ==
    LET qualifying == {i \in 1..Len(tags) : Len(tags[i]) >= 2 /\ keyLen(tags[i][1]) = 1}
    IN  [k \in {tags[i][1] : i \in qualifying} |->
            {tags[i][2] : i \in {j \in qualifying : tags[j][1] = k}}]

\* C12: convert_tags gives the map whose keys are the one-character first
\* elements of the tags of at least two elements, each with the set of the
\* second elements of those tags; shorter tags and keys not one character long
\* add nothing, duplicates collapse, later elements are ignored, and
\* [[e,abc],[e,abc],[encoding,x]] gives {e: {abc}}.
C12_ConvertTags ==
    (probe.fn = "convert_tags" /\ probe.done) =>
        /\ probe.result = TagIndex(probe.tags, Len)
        /\ probe.tags = << << <<"e">>, <<"a","b","c">> >>, << <<"e">>, <<"a","b","c">> >>,
                            << <<"e","n","c","o","d","i","n","g">>, <<"x">> >> >>
              => /\ DOMAIN probe.result = {<<"e">>}
                 /\ probe.result[<<"e">>] = {<<"a","b","c">>}

\* C13: when the store answers the upsert of a replaceable event with a
\* non-success status, no delete_by_query is issued for the event and no
\* document of its (author, kind) pair is removed.
C13_ReconcileOnlyAfterUpsert ==
    [][ ( /\ now' = now /\ last'.route = "update"
          /\ Len(last'.calls) >= 1 /\ last'.calls[1].res = "status"
          /\ is_replaceable_event(EventById(last'.ev)) )
        => /\ \A i \in 1..Len(last'.calls) : last'.calls[i].op # "delete_by_query"
           /\ LET e == EventById(last'.ev)
              IN  PairDocs(store, e.pubkey, e.kind) \subseteq store'
    ]_vars

\* where the store served the call op of instance p for event e
Pos(p, op, e) == CHOOSE i \in 1..Len(ops) : ops[i] = Op(p, op, e.id, "ok")

\* instance p has handled a and instance q has handled b, an older and a newer
\* replaceable event of one author and kind, every call succeeding, and the
\* store has served no other call
RaceDone(p, a, q, b) ==
    /\ p # q
    /\ is_replaceable_event(a) /\ is_replaceable_event(b)
    /\ a.pubkey = b.pubkey /\ a.kind = b.kind
    /\ TimeLess(a.created_at, b.created_at)
    /\ Len(ops) = 4
    /\ {ops[i] : i \in 1..Len(ops)} =
          { Op(p, "index", a.id, "ok"), Op(p, "delete_by_query", a.id, "ok"),
            Op(q, "index", b.id, "ok"), Op(q, "delete_by_query", b.id, "ok") }
    /\ instances[p].pc = "recv" /\ instances[q].pc = "recv"

\* both index calls were served before either delete_by_query
WriteWriteReconcileReconcile ==
    /\ Len(ops) = 4
    /\ ops[1].op = "index" /\ ops[2].op = "index"
    /\ ops[3].op = "delete_by_query" /\ ops[4].op = "delete_by_query"

C15_SelfHealing ==
    [][ LET e == EventById(last'.ev)
        IN  ( /\ now' = now /\ Completed(last') /\ Len(last'.calls) = 2
              /\ is_replaceable_event(e)
              /\ Cardinality(PairDocs(store, e.pubkey, e.kind)) > 1 )
            => Cardinality(PairDocs(store', e.pubkey, e.kind)) <= 1
    ]_vars

\* the event of id under the kind handle_update is applied to on its own
UnitEventById(id) == CHOOSE e \in UnitEvents(probe.kind) : e.id = id

\* what a delete_by_query for e is to remove from st: the documents of the alias
\* of e's author and kind whose created_at is before e's
Older(st, e) ==
    {d \in st : /\ InAlias(d.index)
                /\ d.event.pubkey = e.pubkey /\ d.event.kind = e.kind
                /\ \/ d.event.created_at.day < e.created_at.day
                   \/ /\ d.event.created_at.day = e.created_at.day
                      /\ d.event.created_at.sec < e.created_at.sec}

\* C16: a delete_by_query that succeeds for event e removes the documents of
\* e's author and kind with created_at strictly before e's, in whatever
\* partition of the alias, and the count it reports is theirs; every other
\* document stays as it was: e's own, those of other authors or kinds, and
\* those of e's author and kind with created_at equal to or after e's.
C16_ReconcileEffect ==
    [][ LET e == UnitEventById(last'.ev)
        IN  ( /\ last'.route = "update" /\ Len(last'.calls) = 2
              /\ last'.calls[2].res = "ok" )
            => /\ store \ store' = Older(store, e)
               /\ last'.calls[2].n = Cardinality(Older(store, e))
               /\ \A d \in store' \ store : d.id = e.id
               /\ last'.calls[1].res = "ok" => \E d \in store' : d.id = e.id
               /\ \A d \in store :
                     ( \/ d.event.pubkey # e.pubkey
                       \/ d.event.kind # e.kind
                       \/ ~TimeLess(d.event.created_at, e.created_at) )
                     => d \in store'
    ]_vars

\* the newer event was reconciled: the older document, in another partition,
\* is gone, and the one with the same created_at, the one of the other author
\* and the one of the other kind are live beside the newer
C16_Witness ==
    /\ probe.fn = "handle_update"
    /\ Completed(last) /\ last.ev = "new"
    /\ Len(last.calls) = 2 /\ last.calls[2].n = 1
    /\ {d.id : d \in store} = {"new", "tie", "other", "aside"}

\* C17: once the index call has been answered, handle_update issues the
\* delete_by_query iff the kind is Metadata, ContactList, ChannelMetadata or in
\* the replaceable range; handling an event of any other kind, a text note for
\* one, removes no document.
C17_ReconcileIffReplaceable ==
    [][ LET e           == UnitEventById(last'.ev)
            replaceable == \/ e.kind \in {Metadata, ContactList, ChannelMetadata}
                           \/ e.kind \in ReplaceableMin..ReplaceableMax
            reconciles  == \E i \in 1..Len(last'.calls) :
                               last'.calls[i].op = "delete_by_query"
        IN  last'.route = "update" =>
              /\ (Len(last'.calls) >= 1 /\ last'.calls[1].res # "transport")
                    => (reconciles <=> replaceable)
              /\ reconciles => replaceable
              /\ ~replaceable => store \subseteq store'
    ]_vars

\* a text note was upserted while an older text note of its author was
\* stored, and the older one is still there
C17_Witness ==
    /\ probe.fn = "handle_update" /\ probe.kind = TextNote
    /\ Completed(last) /\ last.ev = "new" /\ Len(last.calls) = 1
    /\ {"old", "new"} \subseteq {d.id : d \in store}

\* C18: a reference of a deletion request whose target has no document when
\* the request is handled ends not found, with no delete call, and a request
\* of such references only leaves the store as it is; an event delivered after
\* a deletion request for it was handled, whether that found no document or
\* deleted one, is written again when it is inside the retention window.
C18_DeletionsNotRemembered ==
    [][ /\ (now' = now /\ last'.route = "deletion") =>
              /\ \A i \in 1..Len(last'.refs) :
                    LET ref == last'.refs[i]
                    IN  ( /\ ~\E d \in store : d.id = ref.id
                          /\ \E j \in 1..Len(last'.calls) :
                                /\ last'.calls[j].op = "search"
                                /\ last'.calls[j].id = ref.id
                                /\ last'.calls[j].res = "ok" )
                        => /\ ref.result = "NotFound"
                           /\ ~\E j \in 1..Len(last'.calls) :
                                  /\ last'.calls[j].op = "delete"
                                  /\ last'.calls[j].id = ref.id
              /\ (\A i \in 1..Len(last'.refs) :
                      ~\E d \in store : d.id = last'.refs[i].id)
                    => (store' = store /\ running' = running)
        /\ LET e == EventById(last'.ev)
           IN  ( /\ now' = now /\ last'.route = "update"
                 /\ \E x \in deletions : x.id = e.id
                 /\ InWindow(e.created_at.day, now) )
               => /\ Len(last'.calls) >= 1
                  /\ last'.calls[1].op = "index" /\ last'.calls[1].id = e.id
                  /\ last'.calls[1].res = "ok" =>
                        \E d \in store' : d.id = e.id /\ d.event = e
    ]_vars

\* A, for which a request had found no document, and T, of which a request
\* had deleted the document, were delivered afterwards and are both stored
C18_Witness ==
    /\ {[id |-> "A", result |-> "NotFound"], [id |-> "T", result |-> "Ok"]}
          \subseteq deletions
    /\ {"A", "T"} \subseteq {d.id : d \in store}
    /\ Completed(last)

\* C19: every document is in the partition named for the UTC date of the
\* created_at of its event, under the id of its event, and no id has documents
\* in more than one partition, so that a search by id on the alias has at most
\* one hit.
C19_PartitionPlacement ==
    /\ \A d \in store :
          /\ d.index = Nostr \o <<"-">> \o DateOf(d.event.created_at.day)
          /\ d.id = d.event.id
    /\ \A d1, d2 \in store : d1.id = d2.id => d1.index = d2.index
    /\ \A e \in Events : Cardinality(EsSearchId(store, e.id)) <= 1

\* after upserts into more than one partition, one of them once the clock had
\* moved, a reconciliation and, last, a deletion that removed a document
C19_Witness ==
    /\ Cardinality({d.index : d \in store}) >= 2
    /\ reconciled # {}
    /\ last.route = "deletion"
    /\ \E i \in 1..Len(last.refs) : last.refs[i].result = "Ok"
    /\ \E d \in store : d.timestamp # StartTime

\* C20: for every prefix, one with a '-' of its own included, and every event
\* with a valid created_at, can_exist on the name index_name_for_event gives
\* returns Ok, and true iff the UTC date of created_at is inside the window.
C20_NameRoundTrip ==
    (probe.fn = "round_trip" /\ probe.done) =>
        /\ probe.name.ok
        /\ probe.result.ok
        /\ probe.result.value <=> InWindow(probe.event.created_at.day, probe.time)

=============================================================================
